---- MODULE Spec2Model ----
(***************************************************************************)
(* Hybrid book recommender: the taste-vector calculator, the content-based *)
(* engine with its page-length bonus, the FAISS user-profile index, the    *)
(* facade's lazy profile creation and the web application's background     *)
(* profile-update task.                                                    *)
(*                                                                         *)
(* Numbers.  Vectors have integer components.  Catalog vectors are unit    *)
(* TF-IDF rows written in hundredths.  A taste vector is the rational      *)
(* num/den with an integer vector num and an integer den > 0.  An          *)
(* L2-normalised float32 vector is a fixed-point vector in units of        *)
(* 1/Scale.  An optional value is a sequence: <<>> for None (or NaN),      *)
(* <<x>> for a value x.                                                    *)
(***************************************************************************)
EXTENDS Integers, Sequences, FiniteSets, TLC

VARIABLES
    fnCall,         \* the pending call of a pure function: [op, ...arguments]
    fnResult,       \* <<>> before the call returns, <<value>> after
    reviews,        \* the 'reviews' collection: user -> title -> optional rating
    profile_store,  \* the 'user_profiles' collection: user -> optional taste vector
    live,           \* the UserProfileIndex of the running web app's facade
    files,          \* the index file and the id-map file on disk
    pending,        \* user -> number of background tasks started and not yet run
    writes,         \* number of writes made through the web app
    lastWrite,      \* user -> the user's last write: had a profile then, its task completed
    lazy,           \* user -> the taste vector a recommendation call created, since the start
    threads,        \* thread -> its position and local variables, when threads run step by step
    owner           \* position in the ANN structure -> the user whose profile vector is stored there

fnVars == <<fnCall, fnResult>>

thrVars == <<threads, owner>>

appVars == <<reviews, profile_store, live, files, pending, writes, lastWrite, lazy, threads, owner>>

vars == <<fnCall, fnResult, reviews, profile_store, live, files, pending, writes, lastWrite, lazy,
          threads, owner>>

--------------------------------------------------------------------------
\* Optional values

None == <<>>

Some(x) == <<x>>

IsNone(o) == Len(o) = 0

Val(o) == o[1]

--------------------------------------------------------------------------
\* Integer arithmetic

Abs(x) == IF x < 0 THEN 0 - x ELSE x

Min(a, b) == IF a < b THEN a ELSE b

\* a / b rounded to the nearest integer, b > 0
Round(a, b) == (2 * a + b) \div (2 * b)

RECURSIVE SqrtIter(_, _, _)
SqrtIter(n, lo, hi) ==
    IF hi - lo <= 1 THEN lo
    ELSE LET mid == (lo + hi) \div 2
         IN  IF mid * mid <= n THEN SqrtIter(n, mid, hi) ELSE SqrtIter(n, lo, mid)

\* floor of the square root of n >= 0 (46341 squared exceeds every 32-bit integer)
ISqrt(n) == SqrtIter(n, 0, Min(n + 1, 46341))

RECURSIVE SumOver(_, _)
SumOver(f, S) ==
    IF S = {} THEN 0
    ELSE LET x == CHOOSE y \in S : TRUE
         IN  f[x] + SumOver(f, S \ {x})

--------------------------------------------------------------------------
\* The book model (RecommenderModel): one row per catalog index 0..N-1.
\* The title 'Delta' is carried by two book ids (titles are not deduplicated).

CatalogRows ==
    << [book_title |-> "Alpha", vector |-> <<100, 0>>,  page_count |-> <<300>>, key_genres |-> {"fantasy"}],
       [book_title |-> "Beta",  vector |-> <<0, 100>>,  page_count |-> <<360>>, key_genres |-> {"crime"}],
       [book_title |-> "Gamma", vector |-> <<71, 71>>,  page_count |-> <<500>>, key_genres |-> {"fantasy", "crime"}],
       [book_title |-> "Delta", vector |-> <<60, 80>>,  page_count |-> <<240>>, key_genres |-> {}],
       [book_title |-> "Delta", vector |-> <<80, 60>>,  page_count |-> <<>>,    key_genres |-> {"essay"}] >>

NumBooks == Len(CatalogRows)

BookIdx == 0 .. NumBooks - 1

\* a further book of the catalog: the volumes of one series, alike in content
SeriesRow == [book_title |-> "Volume", vector |-> <<100, 0>>, page_count |-> <<>>, key_genres |-> {}]

Item(i) == IF i < Len(CatalogRows) THEN CatalogRows[i + 1] ELSE SeriesRow

Dims == DOMAIN CatalogRows[1].vector

\* AnnoyIndex.get_item_vector
get_item_vector(i) == Item(i).vector

\* idx_to_title / book_titles_list
idx_to_title(i) == Item(i).book_title

KnownTitles == {Item(i).book_title : i \in BookIdx}

\* title_to_idx: pd.Series(index, index=titles).to_dict() keeps the last index of a title
title_to_idx(t) ==
    IF t \in KnownTitles
    THEN Some(CHOOSE i \in BookIdx :
                /\ Item(i).book_title = t
                /\ \A j \in BookIdx : Item(j).book_title = t => j <= i)
    ELSE None

--------------------------------------------------------------------------
\* Vectors

ZeroVec == [d \in Dims |-> 0]

VAdd(a, b) == [d \in Dims |-> a[d] + b[d]]

VScale(k, a) == [d \in Dims |-> k * a[d]]

Dot(a, b) == SumOver([d \in Dims |-> a[d] * b[d]], Dims)

\* equality of the rationals p.num/p.den and q.num/q.den
ProfileEq(p, q) == \A d \in Dims : p.num[d] * q.den = q.num[d] * p.den

--------------------------------------------------------------------------
\* TasteVectorCalculator

\* mutant: the weight is the distance of the rating from neutral, without its sign
WeightNum_Unsigned(rating) == IF rating < 3 THEN 3 - rating ELSE rating - 3

\* weight = (float(rating) - 3.0) / 2.0, as the rational WeightNum / WeightDen
WeightNum(rating) == rating - 3

WeightDen == 2

\* `if not title or rating is None: continue` and `if book_idx is None: continue`
RowResolves(row) ==
    /\ row.book_title # ""
    /\ ~IsNone(row.rating)
    /\ ~IsNone(title_to_idx(row.book_title))

\* One step of the loop of calculate on a row that resolves to item idx with
\* weight w / WeightDen: acc is WeightDen times the profile_accumulator, tot is
\* WeightDen times total_weight_magnitude
AddRow(st, idx, w) ==
    [acc   |-> VAdd(st.acc, VScale(w, get_item_vector(idx))),
     tot   |-> st.tot + Abs(w),
     valid |-> st.valid \cup {idx}]

\* The loop of calculate over rows k..Len(rows)
RECURSIVE AccumulateRows(_, _, _)
AccumulateRows(rows, k, st) ==
    IF k > Len(rows) THEN st
    ELSE IF ~RowResolves(rows[k]) THEN AccumulateRows(rows, k + 1, st)
    ELSE AccumulateRows(rows, k + 1,
            AddRow(st, Val(title_to_idx(rows[k].book_title)), WeightNum(Val(rows[k].rating))))

RECURSIVE SumVectors(_)
SumVectors(S) ==
    IF S = {} THEN ZeroVec
    ELSE LET i == CHOOSE j \in S : TRUE
         IN  VAdd(get_item_vector(i), SumVectors(S \ {i}))

NoRows == [acc |-> ZeroVec, tot |-> 0, valid |-> {}]

\* mutant: no fallback for a neutral profile (the zero accumulator is returned)
TasteVector_NoFallback(st) ==
    IF st.valid = {} THEN None
    ELSE Some([num |-> st.acc, den |-> IF st.tot = 0 THEN 1 ELSE st.tot])

\* The end of calculate, after the loop: None, the mean of the valid items, or
\* the weighted average
TasteVector(st) ==
    IF st.valid = {} THEN None
    ELSE IF st.tot = 0
         THEN Some([num |-> SumVectors(st.valid), den |-> Cardinality(st.valid)])
         ELSE Some([num |-> st.acc, den |-> st.tot])

\* mutant: one row that does not resolve makes the whole computation give up
calculate_AbortOnBadRow(rows) ==
    IF Len(rows) = 0 \/ \E k \in DOMAIN rows : ~RowResolves(rows[k]) THEN None
    ELSE TasteVector(AccumulateRows(rows, 1, NoRows))

\* calculate(user_history_df): None, or the taste vector num/den
calculate(rows) ==
    IF Len(rows) = 0 THEN None
    ELSE TasteVector(AccumulateRows(rows, 1, NoRows))

--------------------------------------------------------------------------
\* Fixed-point model of float32 unit vectors

\* resolution of a normalised component: 1/Scale
Scale == 100

RECURSIVE Gcd(_, _)
Gcd(a, b) == IF b = 0 THEN a ELSE Gcd(b, a % b)

MaxAbs(v) == CHOOSE m \in {Abs(v[d]) : d \in Dims} : \A d \in Dims : Abs(v[d]) <= m

MinAbs(v) == CHOOSE m \in {Abs(v[d]) : d \in Dims} : \A d \in Dims : m <= Abs(v[d])

DivideBy(v, g) ==
    IF g > 1 /\ \A d \in Dims : v[d] % g = 0 THEN [d \in Dims |-> v[d] \div g] ELSE v

Shorten(w, m) == IF m <= 200 THEN w ELSE [d \in Dims |-> Round(w[d] * 200, m)]

ShortenLong(w) == Shorten(w, MaxAbs(w))

\* v in lowest terms, and held to 1/200 of its largest component when it is
\* still long; the direction is what normalize_L2 keeps
Reduced(v) == ShortenLong(DivideBy(v, Gcd(MaxAbs(v), MinAbs(v))))

\* Scale * x / sqrt(n2) rounded to the nearest integer, for x >= 0
UnitComponent(x, n2) == (ISqrt((4 * Scale * Scale * x * x) \div n2) + 1) \div 2

SignedUnitComponent(x, n2) ==
    IF x < 0 THEN 0 - UnitComponent(0 - x, n2) ELSE UnitComponent(x, n2)

UnitVector(w, n2) == [d \in Dims |-> SignedUnitComponent(w[d], n2)]

Normalized(w) == UnitVector(w, Dot(w, w))

\* faiss.normalize_L2 on one row: v / |v|; a zero row is left as it is
normalize_L2(v) == IF Dot(v, v) = 0 THEN v ELSE Normalized(Reduced(v))

\* squared Euclidean distance of two fixed-point vectors, in units of 1/Scale^2
SquaredL2(x, y) == SumOver([d \in Dims |-> (x[d] - y[d]) * (x[d] - y[d])], Dims)

\* stable ascending sort of a sequence of records by their integer field key
RECURSIVE SortByKey(_)
SortByKey(s) ==
    IF Len(s) = 0 THEN <<>>
    ELSE LET m == CHOOSE i \in DOMAIN s :
                    \A j \in DOMAIN s : s[j].key > s[i].key \/ (s[j].key = s[i].key /\ j >= i)
             rest == [k \in 1 .. Len(s) - 1 |-> IF k < m THEN s[k] ELSE s[k + 1]]
         IN  <<s[m]>> \o SortByKey(rest)

Take(s, n) == SubSeq(s, 1, Min(n, Len(s)))

--------------------------------------------------------------------------
\* ContentBasedAnnoyRecommender (recommender/engine2.py)

\* Annoy's angular distance, squared, in units of 1/Scale^2: 2 - 2 cos, and 2 when a norm is 0
AngularSquared(q, v) ==
    IF Dot(q, q) = 0 \/ Dot(v, v) = 0 THEN 2 * Scale * Scale
    ELSE SquaredL2(normalize_L2(q), normalize_L2(v))

\* the items of an Annoy index built over the first num_books rows of the
\* catalog, by ascending distance to q (equal distances in index order)
NearestItems(q, num_books) ==
    SortByKey([k \in 1 .. num_books |->
                  [idx |-> k - 1, key |-> AngularSquared(q, get_item_vector(k - 1))]])

\* index.get_nns_by_vector(q, n, include_distances=True): the n nearest catalog
\* indices by ascending distance (equal distances in index order)
get_nns_by_vector(q, n) == Take(NearestItems(q, NumBooks), n)

\* 1 - (distances[i]**2) / 2 as a numerator over 2 * Scale^2
SimilarityNum(d2) == 2 * Scale * Scale - d2

SimilarityDen == 2 * Scale * Scale

\* denominator of the bonus 0.25 = 1 / PageBonusDen
PageBonusDen == 4

\* The page bonus of one candidate as a numerator over BonusDen(avg);
\* avg is the rational avg.num / avg.den, page_count an optional integer.
BonusDen(avg) == IF avg.num > 0 THEN PageBonusDen * avg.num ELSE 1

\* mutant: the band edges are outside the band
PageBonusNum_OpenBand(avg, page_count) ==
    IF /\ avg.num > 0
       /\ ~IsNone(page_count)
       /\ Val(page_count) > 0
       /\ 8 * avg.num < 10 * Val(page_count) * avg.den
       /\ 10 * Val(page_count) * avg.den < 12 * avg.num
    THEN avg.num - Abs(Val(page_count) * avg.den - avg.num)
    ELSE 0

PageBonusNum(avg, page_count) ==
    IF /\ avg.num > 0
       /\ ~IsNone(page_count)
       /\ Val(page_count) > 0
       /\ 8 * avg.num <= 10 * Val(page_count) * avg.den
       /\ 10 * Val(page_count) * avg.den <= 12 * avg.num
    THEN avg.num - Abs(Val(page_count) * avg.den - avg.num)
    ELSE 0

\* final_score = similarity_score + page_bonus, as a numerator over ScoreDen(avg)
ScoreDen(avg) == SimilarityDen * BonusDen(avg)

FinalScoreNum(avg, d2, page_count) ==
    SimilarityNum(d2) * BonusDen(avg) + PageBonusNum(avg, page_count) * SimilarityDen

OverFetch == 20

\* mutant: excluded candidates are kept
KeptCandidates_NoFilter(cands, exclude_indices) == cands

\* `if book_idx in exclude_indices: continue`
KeptCandidates(cands, exclude_indices) == SelectSeq(cands, LAMBDA c : c.idx \notin exclude_indices)

\* final_scores.append((book_idx, final_score)); key orders the descending sort
ScoredCandidate(idx, final_score) == [idx |-> idx, score |-> final_score, key |-> 0 - final_score]

\* mutant: a candidate without page count is dropped instead of scored without bonus
ScoreCandidates_DropNoPages(kept, avg_page_count) ==
    [k \in DOMAIN SelectSeq(kept, LAMBDA c : ~IsNone(Item(c.idx).page_count)) |->
        ScoredCandidate(SelectSeq(kept, LAMBDA c : ~IsNone(Item(c.idx).page_count))[k].idx,
                        FinalScoreNum(avg_page_count,
                                      SelectSeq(kept, LAMBDA c : ~IsNone(Item(c.idx).page_count))[k].key,
                                      Item(SelectSeq(kept, LAMBDA c : ~IsNone(Item(c.idx).page_count))[k].idx).page_count))]

ScoreCandidates(kept, avg_page_count) ==
    [k \in DOMAIN kept |->
        ScoredCandidate(kept[k].idx,
                        FinalScoreNum(avg_page_count, kept[k].key, Item(kept[k].idx).page_count))]

\* top_indices and the titles returned
TopTitles(final_scores, top) ==
    [final_scores |-> final_scores,
     indices      |-> [k \in DOMAIN top |-> top[k].idx],
     titles       |-> [k \in DOMAIN top |-> idx_to_title(top[k].idx)]]

TopN(final_scores, top_n) == TopTitles(final_scores, Take(final_scores, top_n))

\* lines 142-183 on the candidates that get_nns_by_vector returned
RankCandidates(cands, exclude_indices, top_n, avg_page_count) ==
    TopN(SortByKey(ScoreCandidates(KeptCandidates(cands, exclude_indices), avg_page_count)), top_n)

\* get_recommendations_by_profile: final_scores after the sort, and the titles returned
get_recommendations_by_profile(profile_vector, exclude_indices, top_n, avg_page_count) ==
    RankCandidates(get_nns_by_vector(profile_vector, top_n * OverFetch),
                   exclude_indices, top_n, avg_page_count)

NoRecommendations == [final_scores |-> <<>>, indices |-> <<>>, titles |-> <<>>]

--------------------------------------------------------------------------
\* ContentBasedRecommender (recommender/engine.py), the similarity-matrix
\* engine, over the books of the catalog

\* cosine_sim_matrix[i][j], in units of 1/Scale^2
CosineSim(i, j) == Dot(normalize_L2(get_item_vector(i)), normalize_L2(get_item_vector(j)))

\* book_indices[title]: the first index when several books carry the title
FirstIndex(t) == CHOOSE i \in BookIdx : Item(i).book_title = t /\ \A j \in BookIdx : Item(j).book_title = t => i <= j

\* the indices of the input titles found in book_indices, in input order
InputIndices(input_book_titles) ==
    [k \in DOMAIN SelectSeq(input_book_titles, LAMBDA t : t \in KnownTitles) |->
        FirstIndex(SelectSeq(input_book_titles, LAMBDA t : t \in KnownTitles)[k])]

\* cosine_sim_matrix[input_indices].mean(axis=0)[j], times the number of input indices
SumSim(input_indices, j) ==
    SumOver([k \in DOMAIN input_indices |-> CosineSim(input_indices[k], j)], DOMAIN input_indices)

\* sorted(enumerate(avg_sim_scores), key=score, reverse=True), without the input books
FinalBookIndices(input_indices) ==
    SelectSeq(SortByKey([k \in 1 .. NumBooks |->
                            [idx |-> k - 1, key |-> 0 - SumSim(input_indices, k - 1)]]),
              LAMBDA e : \A k \in DOMAIN input_indices : input_indices[k] # e.idx)

\* top_indices = final_book_indices[1:top_n+1], and the titles returned
TopSimilar(final_book_indices, top_n) ==
    [ranked  |-> [k \in DOMAIN final_book_indices |-> final_book_indices[k].idx],
     indices |-> [k \in 1 .. Min(top_n, Len(final_book_indices) - 1) |-> final_book_indices[k + 1].idx],
     titles  |-> [k \in 1 .. Min(top_n, Len(final_book_indices) - 1) |->
                    idx_to_title(final_book_indices[k + 1].idx)]]

SimilarTo(input_indices, top_n) ==
    IF Len(input_indices) = 0 THEN [ranked |-> <<>>, indices |-> <<>>, titles |-> <<>>]
    ELSE TopSimilar(FinalBookIndices(input_indices), top_n)

\* get_recommendations(input_book_titles, top_n)
get_recommendations(input_book_titles, top_n) == SimilarTo(InputIndices(input_book_titles), top_n)

--------------------------------------------------------------------------
\* ModelBuilder (recommender/model.py). A row of the input frame is
\* [book_id, book_title], each None when missing.

\* dropna(subset=['book_id', 'book_title'])
DropNa(df) == SelectSeq(df, LAMBDA row : ~IsNone(row.book_id) /\ ~IsNone(row.book_title))

\* drop_duplicates(subset=['book_id']): the first row of every book_id is kept
RECURSIVE DropDuplicateIds(_, _)
DropDuplicateIds(df, seen) ==
    IF Len(df) = 0 THEN <<>>
    ELSE IF Head(df).book_id \in seen THEN DropDuplicateIds(Tail(df), seen)
    ELSE <<Head(df)>> \o DropDuplicateIds(Tail(df), seen \cup {Head(df).book_id})

\* sort_values(by='book_id').reset_index(drop=True)
SortByBookId(df) ==
    SortByKey([k \in DOMAIN df |-> [key |-> Val(df[k].book_id), book_title |-> Val(df[k].book_title)]])

\* _prepare_data(df)
prepare_data(df) == SortByBookId(DropDuplicateIds(DropNa(df), {}))

\* Fase 4: pd.Series(index, index=titles).to_dict() keeps the last index of a
\* title; pd.Series(titles, index=index).to_dict()
ModelMaps(df_processed) ==
    [title_to_idx |-> [t \in {df_processed[k].book_title : k \in DOMAIN df_processed} |->
                          CHOOSE i \in 0 .. Len(df_processed) - 1 :
                              /\ df_processed[i + 1].book_title = t
                              /\ \A j \in 0 .. Len(df_processed) - 1 :
                                    df_processed[j + 1].book_title = t => j <= i],
     idx_to_title |-> [i \in 0 .. Len(df_processed) - 1 |-> df_processed[i + 1].book_title]]

\* ModelBuilder.build(df): None for an empty frame and when nothing is left to vectorize
Built(df_processed) == IF Len(df_processed) = 0 THEN None ELSE Some(ModelMaps(df_processed))

build_model(df) == IF Len(df) = 0 THEN None ELSE Built(prepare_data(df))

--------------------------------------------------------------------------
\* UserRecommenderFacade (recommender/facade.py)

RowIdx(row) == title_to_idx(row.book_title)

RowsAt(rows, i) == {k \in DOMAIN rows : RowIdx(rows[k]) = Some(i)}

FoundRows(rows) == {k \in DOMAIN rows : ~IsNone(RowIdx(rows[k]))}

\* liked_books_df['page_count'].mean(), or 0
AvgPageCount(rows, liked) ==
    IF liked = {} THEN [num |-> 0, den |-> 1]
    ELSE [num |-> SumOver([k \in liked |-> Val(rows[k].page_count)], liked), den |-> Cardinality(liked)]

GenresOf(rows, ks) == UNION {Item(Val(RowIdx(rows[k]))).key_genres : k \in ks}

\* mutant: the preferred genres are not taken out of the disliked ones
RerankContext_NoDifference(rows, found, pref) ==
    [avg_page_count   |-> AvgPageCount(rows, {k \in found : Val(rows[k].rating) >= 4
                                                           /\ ~IsNone(rows[k].page_count)}),
     preferred_genres |-> pref,
     disliked_genres  |-> GenresOf(rows, {k \in found : Val(rows[k].rating) <= 2})]

RerankContext(rows, found, pref) ==
    [avg_page_count   |-> AvgPageCount(rows, {k \in found : Val(rows[k].rating) >= 4
                                                           /\ ~IsNone(rows[k].page_count)}),
     preferred_genres |-> pref,
     disliked_genres  |-> GenresOf(rows, {k \in found : Val(rows[k].rating) <= 2}) \ pref]

PrepareFound(rows, found) ==
    [rerank_context |-> RerankContext(rows, found, GenresOf(rows, {k \in found : Val(rows[k].rating) >= 4})),
     read_indices   |-> {i \in BookIdx : RowsAt(rows, i) # {}}]

\* _prepare_rerank_context(user_history_df)
prepare_rerank_context(rows) == PrepareFound(rows, FoundRows(rows))

RecommendForProfile(profile_vector, prep, top_n) ==
    IF IsNone(profile_vector) THEN NoRecommendations
    ELSE get_recommendations_by_profile(Val(profile_vector).num, prep.read_indices,
                                        top_n, prep.rerank_context.avg_page_count)

\* recommend_with_content_based(user_id, top_n) on the history found for user_id
recommend_with_content_based(rows, top_n) ==
    IF Len(rows) = 0 THEN NoRecommendations
    ELSE RecommendForProfile(calculate(rows), prepare_rerank_context(rows), top_n)

--------------------------------------------------------------------------
\* User ids.  A user_id is typed Any: a Python str [str |-> s] or an int [int |-> i].

RawStr(s) == [str |-> s]

RawInt(i) == [int |-> i]

Digits == <<"0", "1", "2", "3", "4", "5", "6", "7", "8", "9">>

RECURSIVE IntStr(_)
IntStr(i) == IF i < 10 THEN Digits[i + 1] ELSE IntStr(i \div 10) \o Digits[(i % 10) + 1]

\* str(user_id)
str(user_id) == IF "int" \in DOMAIN user_id THEN IntStr(user_id.int) ELSE user_id.str

\* the truth value of a user_id: 0 and '' are false
Truthy(user_id) == IF "int" \in DOMAIN user_id THEN user_id.int # 0 ELSE user_id.str # ""

--------------------------------------------------------------------------
\* UserProfileIndex (recommender/user_profile_index.py).  An instance is
\* [index, int_to_str_id_map, str_to_int_id_map]; index is None or Some(the
\* sequence of [id, vector] entries of the faiss IndexIDMap, in storage order).
\* A dict is a function; dict keys are iterated in ascending int id.

EmptyMap == <<>>

MapPut(m, k, v) == [x \in DOMAIN m \cup {k} |-> IF x = k THEN v ELSE m[x]]

MapRange(m) == {m[k] : k \in DOMAIN m}

\* {v: k for k, v in m.items()}: a later key replaces an earlier one
ReverseMap(m) ==
    [v \in MapRange(m) |->
        CHOOSE k \in DOMAIN m : m[k] = v /\ \A j \in DOMAIN m : m[j] = v => j <= k]

\* __init__
NewUserProfileIndex ==
    [index |-> None, int_to_str_id_map |-> EmptyMap, str_to_int_id_map |-> EmptyMap]

ntotal(inst) == Len(Val(inst.index))

\* mutant: the vectors are added to the index that is there, the maps are replaced
build_OnPriorIndex(inst, user_profiles) ==
    IF Len(user_profiles) = 0
    THEN [index |-> Some(<<>>), int_to_str_id_map |-> EmptyMap, str_to_int_id_map |-> EmptyMap]
    ELSE LET int_to_str == [i \in 0 .. Len(user_profiles) - 1 |-> str(user_profiles[i + 1].user_id)]
         IN  [index |-> Some((IF IsNone(inst.index) THEN <<>> ELSE Val(inst.index)) \o
                             [k \in DOMAIN user_profiles |->
                                [id |-> k - 1,
                                 vector |-> normalize_L2(user_profiles[k].taste_vector.num)]]),
              int_to_str_id_map |-> int_to_str,
              str_to_int_id_map |-> ReverseMap(int_to_str)]

\* build(user_profiles)
build(inst, user_profiles) ==
    IF Len(user_profiles) = 0
    THEN [index |-> Some(<<>>), int_to_str_id_map |-> EmptyMap, str_to_int_id_map |-> EmptyMap]
    ELSE LET int_to_str == [i \in 0 .. Len(user_profiles) - 1 |-> str(user_profiles[i + 1].user_id)]
         IN  [index |-> Some([k \in DOMAIN user_profiles |->
                                [id |-> k - 1,
                                 vector |-> normalize_L2(user_profiles[k].taste_vector.num)]]),
              int_to_str_id_map |-> int_to_str,
              str_to_int_id_map |-> ReverseMap(int_to_str)]

\* add(user_id, vector): user_id is the integer id
add(inst, int_id, vector) ==
    IF IsNone(inst.index) THEN inst
    ELSE [inst EXCEPT !.index =
            Some(Append(Val(inst.index), [id |-> int_id, vector |-> normalize_L2(vector.num)]))]

\* IndexFlatL2.search reports the squared Euclidean distance; here in units of 1/Scale^2
FaissDistance(x, y) == SquaredL2(x, y)

\* index.search(vector, n): the n nearest entries by ascending distance (equal
\* distances in storage order)
FaissSearch(entries, q, n) ==
    Take(SortByKey([k \in DOMAIN entries |->
                       [int_id |-> entries[k].id, key |-> FaissDistance(q, entries[k].vector)]]), n)

\* similarity = 1 - (distances[0][i]**2) / 2 as a numerator over FaissSimilarityDen
FaissSimilarityNum(d) == 2 * Scale * Scale * Scale * Scale - d * d

FaissSimilarityDen == 2 * Scale * Scale * Scale * Scale

\* mutant: the target user is not filtered out
KeepNeighbor_NoExclusion(inst, int_id, str_user_id_to_exclude) ==
    int_id \in DOMAIN inst.int_to_str_id_map /\ inst.int_to_str_id_map[int_id] # ""

\* `if str_user_id and str_user_id != str_user_id_to_exclude`
KeepNeighbor(inst, int_id, str_user_id_to_exclude) ==
    /\ int_id \in DOMAIN inst.int_to_str_id_map
    /\ inst.int_to_str_id_map[int_id] # ""
    /\ Some(inst.int_to_str_id_map[int_id]) # str_user_id_to_exclude

\* str_user_id_to_exclude = str(user_id_to_exclude) if user_id_to_exclude else None
StrUserIdToExclude(user_id_to_exclude) ==
    IF ~IsNone(user_id_to_exclude) /\ Truthy(Val(user_id_to_exclude))
    THEN Some(str(Val(user_id_to_exclude))) ELSE None

Neighbors(inst, kept) ==
    [i \in DOMAIN kept |->
        [user_id    |-> inst.int_to_str_id_map[kept[i].int_id],
         similarity |-> FaissSimilarityNum(kept[i].key)]]

KeptNeighbors(inst, found, str_user_id_to_exclude) ==
    Neighbors(inst, SelectSeq(found, LAMBDA e : KeepNeighbor(inst, e.int_id, str_user_id_to_exclude)))

\* num_to_fetch = k + 10 if user_id_to_exclude is not None else k, at most ntotal
NumToFetch(inst, k, user_id_to_exclude) ==
    Min(IF IsNone(user_id_to_exclude) THEN k ELSE k + 10, ntotal(inst))

\* search(vector, k, user_id_to_exclude): a list of [user_id, similarity]
search(inst, vector, k, user_id_to_exclude) ==
    IF IsNone(inst.index) \/ ntotal(inst) = 0 THEN <<>>
    ELSE Take(KeptNeighbors(inst,
                            FaissSearch(Val(inst.index), normalize_L2(vector.num),
                                        NumToFetch(inst, k, user_id_to_exclude)),
                            StrUserIdToExclude(user_id_to_exclude)), k)

\* The two artifacts on disk: [index_file, map_file], each None or Some(content)
NoArtifacts == [index_file |-> None, map_file |-> None]

\* save(): faiss.write_index, then joblib.dump(int_to_str_id_map)
save(inst, disk) ==
    IF IsNone(inst.index) THEN disk
    ELSE [index_file |-> inst.index, map_file |-> Some(inst.int_to_str_id_map)]

\* mutant: the index file is read although the id-map file is missing
load_WithoutMap(inst, disk) ==
    IF IsNone(disk.index_file) THEN inst
    ELSE IF IsNone(disk.map_file) THEN [inst EXCEPT !.index = disk.index_file]
    ELSE [index |-> disk.index_file,
          int_to_str_id_map |-> Val(disk.map_file),
          str_to_int_id_map |-> ReverseMap(Val(disk.map_file))]

\* load()
load(inst, disk) ==
    IF IsNone(disk.index_file) \/ IsNone(disk.map_file) THEN inst
    ELSE [index |-> disk.index_file,
          int_to_str_id_map |-> Val(disk.map_file),
          str_to_int_id_map |-> ReverseMap(Val(disk.map_file))]

\* mutant: the new id is the current number of vectors less one
NewIntId_OffByOne(inst) == Cardinality(DOMAIN inst.str_to_int_id_map) - 1

\* new_int_id = len(str_to_int_id_map)
NewIntId(inst) == Cardinality(DOMAIN inst.str_to_int_id_map)

\* int_to_str_id_map[new_int_id] = str_id; str_to_int_id_map[str_id] = new_int_id
WithMapping(inst, new_int_id, str_id) ==
    [inst EXCEPT !.int_to_str_id_map = MapPut(inst.int_to_str_id_map, new_int_id, str_id),
                 !.str_to_int_id_map = MapPut(inst.str_to_int_id_map, str_id, new_int_id)]

AddNewUser(inst, new_int_id, str_id, new_profile_vector) ==
    WithMapping(add(inst, new_int_id, new_profile_vector), new_int_id, str_id)

InsertNew(inst, str_id, new_profile_vector) ==
    IF str_id \in DOMAIN inst.str_to_int_id_map THEN inst
    ELSE AddNewUser(inst, NewIntId(inst), str_id, new_profile_vector)

\* _get_or_create_user_profile, lines 105-114: the insertion of a new profile
\* into the live index, run without interruption
InsertProfile(inst, user_id, new_profile_vector) == InsertNew(inst, str(user_id), new_profile_vector)

RECURSIVE InsertAll(_, _, _)
InsertAll(inst, inserts, k) ==
    IF k > Len(inserts) THEN inst
    ELSE InsertAll(InsertProfile(inst, inserts[k].user_id, inserts[k].taste_vector), inserts, k + 1)

--------------------------------------------------------------------------
\* The web app (webapp/app.py), its facade, the two collections, and the build
\* script (scripts/build_user_profile_index.py)

MaxWrites == 2

Users == {"u1", "u2"}

\* the books a user can rate, in the order their reviews are listed
WebTitles == <<"Alpha", "Beta">>

\* ratings a form submits; None when the rating field is left empty
SubmittedRatings == {None, Some(1), Some(5)}

NoReviews == [t \in {WebTitles[k] : k \in DOMAIN WebTitles} |-> None]

PageCountOf(title) == Item(Val(title_to_idx(title))).page_count

ReviewRow(title, rating) == [book_title |-> title, rating |-> rating, page_count |-> PageCountOf(title)]

\* find_interactions_by_user(user_id): one row per review of the user
find_interactions_by_user(user_reviews) ==
    [k \in DOMAIN SelectSeq(WebTitles, LAMBDA t : ~IsNone(user_reviews[t])) |->
        ReviewRow(SelectSeq(WebTitles, LAMBDA t : ~IsNone(user_reviews[t]))[k],
                  user_reviews[SelectSeq(WebTitles, LAMBDA t : ~IsNone(user_reviews[t]))[k]])]

\* `int(rating_str) if rating_str else 0`
StoredRating(rating_str) == IF IsNone(rating_str) THEN 0 ELSE Val(rating_str)

\* the threads of the web app process: background profile-update tasks and a
\* request that searches
TaskThreads == {"t1", "t2"}

SearchThreads == {"s1"}

\* a thread that calls build on the same UserProfileIndex
BuildThreads == {"b1"}

Idle == [pc |-> "idle"]

NoThreads == [t \in TaskThreads \cup SearchThreads \cup BuildThreads |-> Idle]

\* The outcome of _get_or_create_user_profile: the collection, the live index
\* and the vector returned
Outcome(profiles, inst, profile_vector) ==
    [user_profiles |-> profiles, index |-> inst, profile_vector |-> profile_vector]

\* lines 101-116: save_or_update, then the insertion into the live index
CreateProfile(profiles, inst, user_id, new_profile_vector) ==
    IF IsNone(new_profile_vector) THEN Outcome(profiles, inst, None)
    ELSE Outcome([profiles EXCEPT ![user_id] = new_profile_vector],
                 InsertProfile(inst, RawStr(user_id), Val(new_profile_vector)),
                 new_profile_vector)

\* mutant: a user without history gets the zero vector as profile
get_or_create_user_profile_ZeroForEmpty(profiles, inst, user_id, rows) ==
    IF ~IsNone(profiles[user_id]) THEN Outcome(profiles, inst, profiles[user_id])
    ELSE CreateProfile(profiles, inst, user_id,
                       IF Len(rows) = 0 THEN Some([num |-> ZeroVec, den |-> 1]) ELSE calculate(rows))

\* _get_or_create_user_profile(user_id), rows being the user's interactions
get_or_create_user_profile(profiles, inst, user_id, rows) ==
    IF ~IsNone(profiles[user_id]) THEN Outcome(profiles, inst, profiles[user_id])
    ELSE IF Len(rows) = 0 THEN Outcome(profiles, inst, None)
    ELSE CreateProfile(profiles, inst, user_id, calculate(rows))

InitApp ==
    /\ reviews = [u \in Users |-> NoReviews]
    /\ profile_store = [u \in Users |-> None]
    /\ live = NewUserProfileIndex
    /\ files = NoArtifacts
    /\ pending = [u \in Users |-> 0]
    /\ writes = 0
    /\ lastWrite = [u \in Users |-> None]
    /\ lazy = [u \in Users |-> None]
    /\ threads = NoThreads
    /\ owner = <<>>

--------------------------------------------------------------------------
\* Pure-function harness: the arguments are drawn at Init, one action per function.

MaxHist == 2

MaxTopN == 2

RowTitles == {"Alpha", "Beta", "Delta", "Zeta", ""}

RowRatings == {None} \cup {Some(r) : r \in 0 .. 5}

CalcRows == [book_title : RowTitles, rating : RowRatings, page_count : {None}]

Histories(S, n) == UNION {[1 .. k -> S] : k \in 0 .. n}

CalcCalls == [op : {"calculate"}, history : Histories(CalcRows, MaxHist)]

ProfileVecs == {<<1, 0>>, <<1, 0 - 1>>, <<3, 4>>, <<0, 0>>}

AvgPages == {[num |-> 0, den |-> 1], [num |-> 300, den |-> 1], [num |-> 500, den |-> 2]}

ProfileCalls ==
    [op : {"by_profile"}, profile_vector : ProfileVecs, exclude_indices : SUBSET BookIdx,
     top_n : 1 .. MaxTopN, avg_page_count : AvgPages]

FacadeRows ==
    [book_title : {"Alpha", "Beta", "Zeta"}, rating : {Some(1), Some(3), Some(5)},
     page_count : {None, Some(240), Some(360)}]

ContentCalls ==
    [op : {"content_based"}, history : Histories(FacadeRows, MaxHist), top_n : {1, MaxTopN}]

\* a catalog that holds the first num_books rows only (Alpha, Beta, Gamma when
\* num_books = 3), a history over Alpha and Beta, and the call of
\* get_recommendations_by_profile on the taste vector of that history with the
\* default avg_page_count = 0.0
ScenarioRows == [book_title : {"Alpha", "Beta"}, rating : {Some(1), Some(3), Some(5)}, page_count : {None}]

ScenarioCalls ==
    [op : {"scenario"}, num_books : 3 .. NumBooks, history : Histories(ScenarioRows, MaxHist),
     exclude_indices : {{}, {0, 1}}, top_n : 1 .. MaxTopN]

\* a catalog with one book more than get_nns_by_vector is asked for when top_n = 1
PoolBooks == OverFetch + 1

\* get_recommendations_by_profile on the catalog of the first num_books books
PoolCalls ==
    [op : {"pool"}, num_books : {NumBooks, PoolBooks}, profile_vector : ProfileVecs,
     exclude_indices : {{}, {1}, 0 .. PoolBooks - 2}, top_n : 1 .. MaxTopN]

\* input titles of get_recommendations: known ones, one carried by two books, an unknown one
SimilarCalls ==
    [op : {"similar"}, input_book_titles : Histories({"Alpha", "Beta", "Delta", "Zeta"}, MaxHist),
     top_n : 1 .. MaxTopN]

MaxRows == 2

\* rows of the books frame: two book ids, two titles, missing values
BookRows == [book_id : {None, Some(1), Some(2)}, book_title : {None, Some("Alpha"), Some("Delta")}]

BuildCalls == [op : {"model_build"}, df : Histories(BookRows, MaxRows)]

\* rows for _prepare_rerank_context: ratings around the thresholds 2 and 4, books
\* that share a genre, a title the model does not know
ContextRows ==
    [book_title : {"Alpha", "Gamma", "Delta", "Zeta"}, rating : {Some(2), Some(3), Some(4)},
     page_count : {None, Some(240), Some(360)}]

ContextCalls == [op : {"rerank_context"}, history : Histories(ContextRows, MaxHist)]

InitFn ==
    /\ fnCall \in CalcCalls \cup ProfileCalls \cup ContentCalls \cup ScenarioCalls \cup ContextCalls \cup PoolCalls
                 \cup BuildCalls \cup SimilarCalls
    /\ fnResult = None
    /\ InitApp

DoCalculate ==
    /\ fnCall.op = "calculate"
    /\ IsNone(fnResult)
    /\ fnResult' = Some(calculate(fnCall.history))
    /\ UNCHANGED fnCall
    /\ UNCHANGED appVars

DoRecommendByProfile ==
    /\ fnCall.op = "by_profile"
    /\ IsNone(fnResult)
    /\ fnResult' = Some(get_recommendations_by_profile(fnCall.profile_vector, fnCall.exclude_indices,
                                                       fnCall.top_n, fnCall.avg_page_count))
    /\ UNCHANGED fnCall
    /\ UNCHANGED appVars

DoRecommendContentBased ==
    /\ fnCall.op = "content_based"
    /\ IsNone(fnResult)
    /\ fnResult' = Some(recommend_with_content_based(fnCall.history, fnCall.top_n))
    /\ UNCHANGED fnCall
    /\ UNCHANGED appVars

ScenarioResult(call, profile_vector) ==
    [profile_vector |-> profile_vector,
     titles |-> IF IsNone(profile_vector) THEN <<>>
                ELSE RankCandidates(Take(NearestItems(Val(profile_vector).num, call.num_books),
                                         call.top_n * OverFetch),
                                    call.exclude_indices, call.top_n, [num |-> 0, den |-> 1]).titles]

\* calculate(history), then get_recommendations_by_profile(profile, exclude, top_n)
DoScenario ==
    /\ fnCall.op = "scenario"
    /\ IsNone(fnResult)
    /\ fnResult' = Some(ScenarioResult(fnCall, calculate(fnCall.history)))
    /\ UNCHANGED fnCall
    /\ UNCHANGED appVars

DoRecommendFromPool ==
    /\ fnCall.op = "pool"
    /\ IsNone(fnResult)
    /\ fnResult' = Some(RankCandidates(Take(NearestItems(fnCall.profile_vector, fnCall.num_books),
                                            fnCall.top_n * OverFetch),
                                       fnCall.exclude_indices, fnCall.top_n, [num |-> 0, den |-> 1]))
    /\ UNCHANGED fnCall
    /\ UNCHANGED appVars

DoGetRecommendations ==
    /\ fnCall.op = "similar"
    /\ IsNone(fnResult)
    /\ fnResult' = Some(get_recommendations(fnCall.input_book_titles, fnCall.top_n))
    /\ UNCHANGED fnCall
    /\ UNCHANGED appVars

DoModelBuild ==
    /\ fnCall.op = "model_build"
    /\ IsNone(fnResult)
    /\ fnResult' = Some(build_model(fnCall.df))
    /\ UNCHANGED fnCall
    /\ UNCHANGED appVars

DoPrepareRerankContext ==
    /\ fnCall.op = "rerank_context"
    /\ IsNone(fnResult)
    /\ fnResult' = Some(prepare_rerank_context(fnCall.history))
    /\ UNCHANGED fnCall
    /\ UNCHANGED appVars

NextFn ==
    \/ DoGetRecommendations
    \/ DoModelBuild
    \/ DoRecommendFromPool
    \/ DoPrepareRerankContext
    \/ DoCalculate
    \/ DoRecommendByProfile
    \/ DoRecommendContentBased
    \/ DoScenario

SpecFn == InitFn /\ [][NextFn]_vars

--------------------------------------------------------------------------
\* Harness of UserProfileIndex: build(profiles), insertions of users through the
\* facade, then one search, or save() and load() on a fresh instance

MaxProfiles == 2

MaxInserts == 1

MaxK == 2

StoredVecs == {[num |-> <<1, 0>>, den |-> 1], [num |-> <<0 - 1, 0>>, den |-> 1]}

QueryVecs == StoredVecs \cup {[num |-> <<1, 1>>, den |-> 2]}

\* user ids of the profile documents: strings, and the integer 2 whose string form is "2"
ProfileUserIds == {RawStr("u1"), RawStr("u2"), RawStr("2"), RawInt(2)}

\* build is called with the profiles of distinct users (one document per user_id)
ApiProfiles ==
    {ps \in Histories([user_id : ProfileUserIds, taste_vector : StoredVecs], MaxProfiles) :
        \A i, j \in DOMAIN ps : i # j => ps[i].user_id # ps[j].user_id}

\* the build scripts call build with the position of each profile as its user_id
ScriptProfiles ==
    {ps \in Histories([user_id : {RawInt(i) : i \in 0 .. MaxProfiles - 1}, taste_vector : StoredVecs],
                      MaxProfiles) :
        \A i \in DOMAIN ps : ps[i].user_id = RawInt(i - 1)}

InsertLists == Histories([user_id : {RawStr("u1"), RawStr("u3")}, taste_vector : StoredVecs], MaxInserts)

ExcludedUserIds == {None, Some(RawStr("u1")), Some(RawStr("u3")), Some(RawInt(2))}

SearchCalls ==
    [op : {"search"}, profiles : ApiProfiles \cup ScriptProfiles, inserts : InsertLists,
     vector : QueryVecs, k : {1, MaxK}, user_id_to_exclude : ExcludedUserIds]

RoundTripCalls ==
    [op : {"save_load"}, profiles : ApiProfiles \cup ScriptProfiles, inserts : InsertLists]

\* load() when an artifact is missing, on a fresh instance or on one that was
\* built already, then a search and an add on that instance
MissingCalls ==
    [op : {"load_missing"}, profiles : ApiProfiles \cup ScriptProfiles, missing : SUBSET {"index", "map"},
     built : BOOLEAN, vector : StoredVecs, k : 1 .. MaxK, user_id_to_exclude : {None, Some(RawStr("u1"))}]

\* the profiles build is called with
RebuiltProfiles ==
    {<<>>,
     <<[user_id |-> RawStr("u1"), taste_vector |-> [num |-> <<1, 0>>, den |-> 1]]>>,
     <<[user_id |-> RawStr("u1"), taste_vector |-> [num |-> <<1, 0>>, den |-> 1]],
       [user_id |-> RawStr("u2"), taste_vector |-> [num |-> <<0, 1>>, den |-> 1]]>>}

\* build(rebuilt) on an index that was built and inserted into before
RebuildCalls ==
    [op : {"rebuild"}, profiles : ApiProfiles \cup ScriptProfiles, inserts : InsertLists,
     rebuilt : RebuiltProfiles]

\* the index after build(profiles) and the insertions
BuiltIndex(call) == InsertAll(build(NewUserProfileIndex, call.profiles), call.inserts, 1)

DoSearch ==
    /\ fnCall.op = "search"
    /\ IsNone(fnResult)
    /\ fnResult' = Some(search(BuiltIndex(fnCall), fnCall.vector, fnCall.k, fnCall.user_id_to_exclude))
    /\ UNCHANGED fnCall
    /\ UNCHANGED appVars

LoadFrom(saving, disk) == [saving |-> saving, disk |-> disk, loaded |-> load(NewUserProfileIndex, disk)]

SaveThenLoad(saving) == LoadFrom(saving, save(saving, NoArtifacts))

\* save() on the built index, then load() on a fresh UserProfileIndex of the same path
DoSaveLoad ==
    /\ fnCall.op = "save_load"
    /\ IsNone(fnResult)
    /\ fnResult' = Some(SaveThenLoad(BuiltIndex(fnCall)))
    /\ UNCHANGED fnCall
    /\ UNCHANGED appVars

\* the artifacts that save() wrote, less the missing ones
ArtifactsLess(disk, missing) ==
    [index_file |-> IF "index" \in missing THEN None ELSE disk.index_file,
     map_file   |-> IF "map" \in missing THEN None ELSE disk.map_file]

\* the instance load() is called on: fresh, or built from one profile
LoadingInstance(built) ==
    IF built
    THEN build(NewUserProfileIndex, <<[user_id |-> RawStr("u3"), taste_vector |-> [num |-> <<1, 0>>, den |-> 1]]>>)
    ELSE NewUserProfileIndex

AfterLoad(call, before, after) ==
    [before |-> before,
     after  |-> after,
     found  |-> search(after, call.vector, call.k, call.user_id_to_exclude),
     added  |-> add(after, NewIntId(after), call.vector)]

LoadOn(call, before, disk) == AfterLoad(call, before, load(before, disk))

DoLoadMissing ==
    /\ fnCall.op = "load_missing"
    /\ IsNone(fnResult)
    /\ fnResult' = Some(LoadOn(fnCall, LoadingInstance(fnCall.built),
                               ArtifactsLess(save(build(NewUserProfileIndex, fnCall.profiles), NoArtifacts),
                                             fnCall.missing)))
    /\ UNCHANGED fnCall
    /\ UNCHANGED appVars

Rebuilt(call, before) == [before |-> before, after |-> build(before, call.rebuilt)]

DoRebuild ==
    /\ fnCall.op = "rebuild"
    /\ IsNone(fnResult)
    /\ fnResult' = Some(Rebuilt(fnCall, BuiltIndex(fnCall)))
    /\ UNCHANGED fnCall
    /\ UNCHANGED appVars


--------------------------------------------------------------------------
\* The running system: requests of the web app, its background tasks one at a
\* time, the build script, and the start of the web app

NoCall == [op |-> "none"]

\* fnCall and fnResult hold the last request for recommendations and what it
\* returned, until something else happens
Forgotten == fnCall' = NoCall /\ fnResult' = None

\* trigger_profile_update_in_background(username), after a write of the user
Triggered(u) ==
    /\ pending' = [pending EXCEPT ![u] = @ + 1]
    /\ writes' = writes + 1
    /\ lastWrite' = [lastWrite EXCEPT ![u] = Some([had_profile |-> ~IsNone(profile_store[u]),
                                                   completed   |-> FALSE])]
    /\ Forgotten
    /\ UNCHANGED <<profile_store, live, files, lazy, threads, owner>>

\* save_book: a rating is required, and a book is reviewed once
save_book(u, title, rating_str) ==
    /\ writes < MaxWrites
    /\ ~IsNone(rating_str)
    /\ IsNone(reviews[u][title])
    /\ reviews' = [reviews EXCEPT ![u][title] = Some(StoredRating(rating_str))]
    /\ Triggered(u)

\* update_book: update_one on the user's review of the book, if there is one
update_book(u, title, rating_str) ==
    /\ writes < MaxWrites
    /\ reviews' = IF IsNone(reviews[u][title]) THEN reviews
                  ELSE [reviews EXCEPT ![u][title] = Some(StoredRating(rating_str))]
    /\ Triggered(u)

\* delete_book: delete_one on the user's review of the book
delete_book(u, title) ==
    /\ writes < MaxWrites
    /\ reviews' = [reviews EXCEPT ![u][title] = None]
    /\ Triggered(u)

\* the task of the user's last write has run to its end
TaskCompleted(u) ==
    lastWrite' = IF pending[u] = 1 /\ ~IsNone(lastWrite[u])
                 THEN [lastWrite EXCEPT ![u] = Some([Val(@) EXCEPT !.completed = TRUE])]
                 ELSE lastWrite

\* the end of run_profile_update_task: save() when a vector came back
TaskOutcome(out) ==
    /\ profile_store' = out.user_profiles
    /\ live' = out.index
    /\ files' = IF IsNone(out.profile_vector) THEN files ELSE save(out.index, files)

\* run_profile_update_task(user_id), run from its start to its end
run_profile_update_task(u) ==
    /\ pending[u] > 0
    /\ pending' = [pending EXCEPT ![u] = @ - 1]
    /\ TaskOutcome(get_or_create_user_profile(profile_store, live, u,
                                              find_interactions_by_user(reviews[u])))
    /\ TaskCompleted(u)
    /\ Forgotten
    /\ UNCHANGED <<reviews, writes, lazy, threads, owner>>

\* the call created the profile of u while the live index was there
LazilyCreated(u, out) ==
    lazy' = IF IsNone(profile_store[u]) /\ ~IsNone(out.profile_vector) /\ ~IsNone(live.index)
            THEN [lazy EXCEPT ![u] = out.profile_vector]
            ELSE lazy

\* config.COLLABORATIVE_N_NEIGHBORS
COLLABORATIVE_N_NEIGHBORS == 15

\* the history the interaction repository returns for a neighbour
NeighborHistory(all_reviews, user_id) ==
    IF user_id \in DOMAIN all_reviews THEN find_interactions_by_user(all_reviews[user_id]) ELSE <<>>

\* the items of a history with rating >= 4.0 ("liked") that resolve in the catalog
LikedItems(rows) ==
    {Val(RowIdx(rows[k])) : k \in {j \in FoundRows(rows) : Val(rows[j].rating) >= 4}}

\* the items the neighbours liked, less the excluded ones: the titles returned
\* are taken among these (their scores and order are not modelled), and the
\* list returned is empty exactly when there is none
Recommended(neighbors, all_reviews, exclude_indices) ==
    [neighbors  |-> neighbors,
     candidates |-> UNION {LikedItems(NeighborHistory(all_reviews, neighbors[n].user_id)) :
                              n \in DOMAIN neighbors} \ exclude_indices]

\* CollaborativeFilteringRecommender.recommend(target_user_vector, interaction_repo,
\* exclude_indices, rerank_context, top_n, num_neighbors, user_id): the neighbour
\* query excludes user_id if one is provided
recommend(inst, target_user_vector, all_reviews, exclude_indices, num_neighbors, user_id) ==
    Recommended(search(inst, target_user_vector, num_neighbors, user_id), all_reviews, exclude_indices)

\* `return []`
NoneRecommended == [neighbors |-> <<>>, candidates |-> {}]

\* lines 67-80: the facade passes no user_id to recommend
CollaborativeResult(out, all_reviews, rows) ==
    IF IsNone(out.profile_vector) THEN NoneRecommended
    ELSE recommend(out.index, Val(out.profile_vector), all_reviews,
                   prepare_rerank_context(rows).read_indices, COLLABORATIVE_N_NEIGHBORS, None)

CollaborativeOutcome(u, out, rows) ==
    /\ profile_store' = out.user_profiles
    /\ live' = out.index
    /\ LazilyCreated(u, out)
    /\ fnCall' = [op |-> "collaborative_request", user_id |-> u]
    /\ fnResult' = Some(CollaborativeResult(out, reviews, rows))

CollaborativeFor(u, rows) ==
    CollaborativeOutcome(u, get_or_create_user_profile(profile_store, live, u, rows), rows)

\* recommend_with_collaborative_filtering(user_id): the profile is resolved or
\* created, then the collaborative recommender is asked
recommend_with_collaborative_filtering(u) ==
    /\ fnCall = NoCall
    /\ CollaborativeFor(u, find_interactions_by_user(reviews[u]))
    /\ UNCHANGED <<reviews, files, pending, writes, lastWrite, threads, owner>>

\* api_recommendations asks for top_n = 5
ApiTopN == 5

\* recommend_with_content_based(user_id, top_n) as the web app's facade runs it
content_based_request(u) ==
    /\ fnCall = NoCall
    /\ fnCall' = [op |-> "content_request", user_id |-> u]
    /\ fnResult' = Some(recommend_with_content_based(find_interactions_by_user(reviews[u]), ApiTopN))
    /\ UNCHANGED appVars

\* the recommendations are handed to the caller; requests are answered one at a time
respond ==
    /\ fnCall # NoCall
    /\ Forgotten
    /\ UNCHANGED appVars

\* STAGE 1 of the build script for one user: a profile for a user who has none
Populated(profiles, u, rows) ==
    IF ~IsNone(profiles[u]) \/ Len(rows) = 0 THEN profiles[u] ELSE calculate(rows)

\* STAGE 2: build with the position as user_id, save(), then the dump of the
\* map from position to the user_id of the profile
BuiltArtifacts(all_profiles) ==
    [index_file |-> save(build(NewUserProfileIndex,
                               [i \in DOMAIN all_profiles |->
                                   [user_id |-> RawInt(i - 1),
                                    taste_vector |-> all_profiles[i].taste_vector]]),
                         NoArtifacts).index_file,
     map_file   |-> Some([i \in 0 .. Len(all_profiles) - 1 |-> all_profiles[i + 1].user_id])]

\* the profile documents listed in the order of ordering
AllProfiles(profiles, ordering) ==
    [i \in DOMAIN ordering |-> [user_id |-> ordering[i], taste_vector |-> Val(profiles[ordering[i]])]]

Orderings(S) == {o \in [1 .. Cardinality(S) -> S] : \A i, j \in DOMAIN o : i # j => o[i] # o[j]}

\* populate_profiles_and_build_index(); the collection lists its documents in some order
populate_profiles_and_build_index ==
    /\ profile_store' = [u \in Users |->
                            Populated(profile_store, u, find_interactions_by_user(reviews[u]))]
    /\ \E ordering \in Orderings({u \in Users : ~IsNone(profile_store'[u])}) :
          files' = IF Len(ordering) = 0 THEN files
                  ELSE BuiltArtifacts(AllProfiles(profile_store', ordering))
    /\ Forgotten
    /\ UNCHANGED <<reviews, live, pending, writes, lastWrite, lazy, threads, owner>>

\* create_app: a new facade loads the artifacts; the daemon threads of the
\* process that ended are gone
create_app ==
    /\ live' = load(NewUserProfileIndex, files)
    /\ pending' = [u \in Users |-> 0]
    /\ lazy' = [u \in Users |-> None]
    /\ Forgotten
    /\ UNCHANGED <<reviews, profile_store, files, writes, lastWrite, threads, owner>>

\* the profile documents with position as user_id, as the scripts hand them to build
ProfilesForIndexing(all_profiles) ==
    [i \in DOMAIN all_profiles |->
        [user_id |-> RawInt(i - 1), taste_vector |-> all_profiles[i].taste_vector]]

\* scripts/test_faiss_index.py main: the map is assigned to the instance, then
\* build() and save(); a profile without user_id aborts before the build
TestFaissArtifacts(all_profiles) ==
    IF \E i \in DOMAIN all_profiles : all_profiles[i].user_id = ""
    THEN NoArtifacts
    ELSE save(build([NewUserProfileIndex EXCEPT !.int_to_str_id_map =
                        [i \in 0 .. Len(all_profiles) - 1 |-> all_profiles[i + 1].user_id]],
                    ProfilesForIndexing(all_profiles)),
              NoArtifacts)

\* the profile documents a script fetched: one per user, in some order
FlowProfiles ==
    {ps \in Histories([user_id : Users, taste_vector : StoredVecs], MaxProfiles) :
        /\ Len(ps) >= 1
        /\ \A i, j \in DOMAIN ps : i # j => ps[i].user_id # ps[j].user_id}

FlowCalls ==
    [op : {"build_flow"}, script : {"build_user_profile_index", "test_faiss_index"},
     all_profiles : FlowProfiles, vector : StoredVecs, k : 1 .. MaxK]

\* the artifacts of the flow, the index a later load() gives, and a search on it
FlowResult(call, disk) ==
    [disk   |-> disk,
     loaded |-> load(NewUserProfileIndex, disk),
     found  |-> search(load(NewUserProfileIndex, disk), call.vector, call.k, None)]

DoBuildFlow ==
    /\ fnCall.op = "build_flow"
    /\ IsNone(fnResult)
    /\ fnResult' = Some(FlowResult(fnCall,
                                   IF fnCall.script = "test_faiss_index"
                                   THEN TestFaissArtifacts(fnCall.all_profiles)
                                   ELSE BuiltArtifacts(fnCall.all_profiles)))
    /\ UNCHANGED fnCall
    /\ UNCHANGED appVars

InitIndex ==
    /\ fnCall \in SearchCalls \cup RoundTripCalls \cup MissingCalls \cup RebuildCalls \cup FlowCalls
    /\ fnResult = None
    /\ InitApp

NextIndex ==
    \/ DoBuildFlow
    \/ DoRebuild
    \/ DoLoadMissing
    \/ DoSearch
    \/ DoSaveLoad

SpecIndex == InitIndex /\ [][NextIndex]_vars

Init ==
    /\ fnCall = NoCall
    /\ fnResult = None
    /\ InitApp

Next ==
    \/ \E u \in Users, k \in DOMAIN WebTitles, r \in SubmittedRatings : save_book(u, WebTitles[k], r)
    \/ \E u \in Users, k \in DOMAIN WebTitles, r \in SubmittedRatings : update_book(u, WebTitles[k], r)
    \/ \E u \in Users, k \in DOMAIN WebTitles : delete_book(u, WebTitles[k])
    \/ \E u \in Users : run_profile_update_task(u)
    \/ \E u \in Users : recommend_with_collaborative_filtering(u)
    \/ \E u \in Users : content_based_request(u)
    \/ respond
    \/ populate_profiles_and_build_index
    \/ create_app

Spec == Init /\ [][Next]_vars

--------------------------------------------------------------------------
\* The threads of the running web app, step by step. Every trigger starts a
\* daemon thread that runs run_profile_update_task, and a request searches the
\* same UserProfileIndex; no lock is taken. One step is one call on the
\* collections, on the faiss index, on an id map or on a file.

\* the profile documents the loaded artifacts were built from
LoadedProfiles ==
    {<<[user_id |-> RawStr("u3"), taste_vector |-> [num |-> <<0 - 1, 0>>, den |-> 1]]>>,
     <<[user_id |-> RawStr("2"), taste_vector |-> [num |-> <<0 - 1, 0>>, den |-> 1]],
       [user_id |-> RawInt(2), taste_vector |-> [num |-> <<0, 0 - 1>>, den |-> 1]]>>}

\* the reviews of the users whose tasks run: u1 likes Alpha, u2 likes Beta or has no review
ThreadReviews ==
    {[u \in Users |-> IF u = "u1" THEN [NoReviews EXCEPT !["Alpha"] = Some(5)]
                      ELSE IF b THEN [NoReviews EXCEPT !["Beta"] = Some(5)] ELSE NoReviews] :
        b \in BOOLEAN}

\* the users whose write started the thread
TaskUsers(t) == IF t = "t1" THEN {"u1"} ELSE Users

InitThreads ==
    /\ \E ps \in LoadedProfiles :
          /\ fnCall = [op |-> "threads", profiles |-> ps]
          /\ files = save(build(NewUserProfileIndex, ps), NoArtifacts)
          /\ owner = [k \in DOMAIN ps |-> str(ps[k].user_id)]
    /\ live = load(NewUserProfileIndex, files)
    /\ fnResult = None
    /\ reviews \in ThreadReviews
    /\ profile_store = [u \in Users |-> None]
    /\ pending = [u \in Users |-> 0]
    /\ writes = 0
    /\ lastWrite = [u \in Users |-> None]
    /\ lazy = [u \in Users |-> None]
    /\ threads = NoThreads

At(t, pc) == threads[t].pc = pc

Goto(t, pc) == threads' = [threads EXCEPT ![t].pc = pc]

ThreadFrame == UNCHANGED <<fnCall, fnResult, reviews, pending, writes, lastWrite, lazy>>

\* trigger_profile_update_in_background(user_id): thread.start()
start_task(t, u) ==
    /\ At(t, "idle")
    /\ threads' = [threads EXCEPT ![t] = [pc |-> "find", user_id |-> u, profile_vector |-> None,
                                          new_int_id |-> 0 - 1]]
    /\ UNCHANGED <<profile_store, live, files, owner>>
    /\ ThreadFrame

\* profile_vector = find_by_user_id(user_id); a profile found is returned
task_find(t) ==
    /\ At(t, "find")
    /\ threads' = [threads EXCEPT ![t].profile_vector = profile_store[threads[t].user_id],
                                  ![t].pc = IF IsNone(profile_store[threads[t].user_id])
                                            THEN "calculate" ELSE "write_index"]
    /\ UNCHANGED <<profile_store, live, files, owner>>
    /\ ThreadFrame

\* the vector calculate returned: None ends the task without save()
Calculated(t, new_profile_vector) ==
    threads' = [threads EXCEPT ![t].profile_vector = new_profile_vector,
                               ![t].pc = IF IsNone(new_profile_vector) THEN "done" ELSE "save_or_update"]

\* find_interactions_by_user, then calculate
task_calculate(t) ==
    /\ At(t, "calculate")
    /\ IF Len(find_interactions_by_user(reviews[threads[t].user_id])) = 0
       THEN Goto(t, "done")
       ELSE Calculated(t, calculate(find_interactions_by_user(reviews[threads[t].user_id])))
    /\ UNCHANGED <<profile_store, live, files, owner>>
    /\ ThreadFrame

\* user_profile_repo.save_or_update(user_id, new_profile_vector)
task_save_or_update(t) ==
    /\ At(t, "save_or_update")
    /\ profile_store' = [profile_store EXCEPT ![threads[t].user_id] = threads[t].profile_vector]
    /\ Goto(t, "check")
    /\ UNCHANGED <<live, files, owner>>
    /\ ThreadFrame

\* `if str_id not in str_to_int_id_map: new_int_id = len(str_to_int_id_map)`
task_check(t) ==
    /\ At(t, "check")
    /\ threads' = IF str(RawStr(threads[t].user_id)) \in DOMAIN live.str_to_int_id_map
                  THEN [threads EXCEPT ![t].pc = "write_index"]
                  ELSE [threads EXCEPT ![t].pc = "add", ![t].new_int_id = NewIntId(live)]
    /\ UNCHANGED <<profile_store, live, files, owner>>
    /\ ThreadFrame

\* user_profile_index.add(new_int_id, new_profile_vector)
task_add(t) ==
    /\ At(t, "add")
    /\ live' = add(live, threads[t].new_int_id, Val(threads[t].profile_vector))
    /\ owner' = IF IsNone(live.index) THEN owner ELSE Append(owner, str(RawStr(threads[t].user_id)))
    /\ Goto(t, "map_int")
    /\ UNCHANGED <<profile_store, files>>
    /\ ThreadFrame

\* int_to_str_id_map[new_int_id] = str_id
task_map_int(t) ==
    /\ At(t, "map_int")
    /\ live' = [live EXCEPT !.int_to_str_id_map =
                    MapPut(@, threads[t].new_int_id, str(RawStr(threads[t].user_id)))]
    /\ Goto(t, "map_str")
    /\ UNCHANGED <<profile_store, files, owner>>
    /\ ThreadFrame

\* str_to_int_id_map[str_id] = new_int_id; the vector is returned
task_map_str(t) ==
    /\ At(t, "map_str")
    /\ live' = [live EXCEPT !.str_to_int_id_map =
                    MapPut(@, str(RawStr(threads[t].user_id)), threads[t].new_int_id)]
    /\ Goto(t, "write_index")
    /\ UNCHANGED <<profile_store, files, owner>>
    /\ ThreadFrame

\* save(): faiss.write_index(self.index, self.index_path)
task_write_index(t) ==
    /\ At(t, "write_index")
    /\ IF IsNone(live.index)
       THEN Goto(t, "done") /\ UNCHANGED files
       ELSE Goto(t, "dump_map") /\ files' = [files EXCEPT !.index_file = live.index]
    /\ UNCHANGED <<profile_store, live, owner>>
    /\ ThreadFrame

\* save(): joblib.dump(self.int_to_str_id_map, self.map_path), the end of the task
task_dump_map(t) ==
    /\ At(t, "dump_map")
    /\ files' = [files EXCEPT !.map_file = Some(live.int_to_str_id_map)]
    /\ Goto(t, "done")
    /\ UNCHANGED <<profile_store, live, owner>>
    /\ ThreadFrame

\* an insertion is under way: its vector is added and its map updates are not complete
Inserting == \E t \in TaskThreads : At(t, "map_int") \/ At(t, "map_str")

\* a request thread calls search(vector, k)
start_search(t, vector, k) ==
    /\ At(t, "idle")
    /\ threads' = [threads EXCEPT ![t] = [pc |-> "query", vector |-> vector, k |-> k,
                                          found |-> <<>>, found_owner |-> <<>>,
                                          neighbors |-> <<>>, neighbor_owner |-> <<>>,
                                          overlapped |-> FALSE]]
    /\ UNCHANGED <<profile_store, live, files, owner>>
    /\ ThreadFrame

\* the entries of the ANN structure, labelled with their owner instead of their int id
OwnedEntries == [k \in DOMAIN Val(live.index) |-> [id |-> owner[k], vector |-> Val(live.index)[k].vector]]

\* distances, int_ids = self.index.search(vector, num_to_fetch)
Queried(t, q, n) ==
    threads' = [threads EXCEPT ![t].pc = "lookup",
                               ![t].found = FaissSearch(Val(live.index), q, n),
                               ![t].found_owner = FaissSearch(OwnedEntries, q, n),
                               ![t].overlapped = Inserting]

\* search(): the emptiness test, num_to_fetch and the faiss query
search_query(t) ==
    /\ At(t, "query")
    /\ IF IsNone(live.index) \/ ntotal(live) = 0
       THEN Goto(t, "returned")
       ELSE Queried(t, normalize_L2(threads[t].vector.num), NumToFetch(live, threads[t].k, None))
    /\ UNCHANGED <<profile_store, live, files, owner>>
    /\ ThreadFrame

\* one turn of the loop over int_ids[0]: int_to_str_id_map.get(int_id), the filter, the append
Looked(t, e, e_owner) ==
    threads' = [threads EXCEPT
                   ![t].found = Tail(@),
                   ![t].found_owner = Tail(@),
                   ![t].overlapped = @ \/ Inserting,
                   ![t].neighbors =
                       IF KeepNeighbor(live, e.int_id, None)
                       THEN Append(@, [user_id |-> live.int_to_str_id_map[e.int_id],
                                       similarity |-> FaissSimilarityNum(e.key)])
                       ELSE @,
                   ![t].neighbor_owner = IF KeepNeighbor(live, e.int_id, None)
                                         THEN Append(@, e_owner.int_id) ELSE @]

search_lookup(t) ==
    /\ At(t, "lookup")
    /\ Len(threads[t].found) > 0
    /\ Looked(t, Head(threads[t].found), Head(threads[t].found_owner))
    /\ UNCHANGED <<profile_store, live, files, owner>>
    /\ ThreadFrame

\* return neighbors[:k]
search_return(t) ==
    /\ At(t, "lookup")
    /\ Len(threads[t].found) = 0
    /\ threads' = [threads EXCEPT ![t].pc = "returned",
                                  ![t].neighbors = Take(@, threads[t].k),
                                  ![t].neighbor_owner = Take(@, threads[t].k)]
    /\ UNCHANGED <<profile_store, live, files, owner>>
    /\ ThreadFrame

NextThreads ==
    \/ \E t \in TaskThreads, u \in Users : u \in TaskUsers(t) /\ start_task(t, u)
    \/ \E t \in TaskThreads : task_find(t)
    \/ \E t \in TaskThreads : task_calculate(t)
    \/ \E t \in TaskThreads : task_save_or_update(t)
    \/ \E t \in TaskThreads : task_check(t)
    \/ \E t \in TaskThreads : task_add(t)
    \/ \E t \in TaskThreads : task_map_int(t)
    \/ \E t \in TaskThreads : task_map_str(t)
    \/ \E t \in TaskThreads : task_write_index(t)
    \/ \E t \in TaskThreads : task_dump_map(t)
    \/ \E t \in SearchThreads, vector \in QueryVecs, k \in 1 .. MaxK : start_search(t, vector, k)
    \/ \E t \in SearchThreads : search_query(t)
    \/ \E t \in SearchThreads : search_lookup(t)
    \/ \E t \in SearchThreads : search_return(t)

SpecThreads == InitThreads /\ [][NextThreads]_vars

--------------------------------------------------------------------------
\* build(user_profiles) step by step, on a UserProfileIndex that another thread searches

BuildFrame == UNCHANGED <<profile_store, files>> /\ ThreadFrame

start_build(t, user_profiles) ==
    /\ At(t, "idle")
    /\ threads' = [threads EXCEPT ![t] = [pc |-> "new_index", user_profiles |-> user_profiles]]
    /\ UNCHANGED <<live, owner>>
    /\ BuildFrame

\* self.index = faiss.IndexIDMap(faiss.IndexFlatL2(self.vector_size))
build_new_index(t) ==
    /\ At(t, "new_index")
    /\ live' = [live EXCEPT !.index = Some(<<>>)]
    /\ owner' = <<>>
    /\ Goto(t, "clear_int")
    /\ BuildFrame

\* self.int_to_str_id_map.clear()
build_clear_int(t) ==
    /\ At(t, "clear_int")
    /\ live' = [live EXCEPT !.int_to_str_id_map = EmptyMap]
    /\ Goto(t, "clear_str")
    /\ UNCHANGED owner
    /\ BuildFrame

\* self.str_to_int_id_map.clear(); `if not user_profiles: return`
build_clear_str(t) ==
    /\ At(t, "clear_str")
    /\ live' = [live EXCEPT !.str_to_int_id_map = EmptyMap]
    /\ Goto(t, IF Len(threads[t].user_profiles) = 0 THEN "done" ELSE "map_int")
    /\ UNCHANGED owner
    /\ BuildFrame

\* self.int_to_str_id_map = {int(k): v for k, v in zip(int_ids, str_user_ids)}
build_map_int(t) ==
    /\ At(t, "map_int")
    /\ live' = [live EXCEPT !.int_to_str_id_map =
                    build(NewUserProfileIndex, threads[t].user_profiles).int_to_str_id_map]
    /\ Goto(t, "map_str")
    /\ UNCHANGED owner
    /\ BuildFrame

\* self.str_to_int_id_map = {v: k for k, v in self.int_to_str_id_map.items()}
build_map_str(t) ==
    /\ At(t, "map_str")
    /\ live' = [live EXCEPT !.str_to_int_id_map = ReverseMap(live.int_to_str_id_map)]
    /\ Goto(t, "add_with_ids")
    /\ UNCHANGED owner
    /\ BuildFrame

\* self.index.add_with_ids(vectors, int_ids)
build_add_with_ids(t) ==
    /\ At(t, "add_with_ids")
    /\ live' = [live EXCEPT !.index =
                    Some(Val(@) \o Val(build(NewUserProfileIndex, threads[t].user_profiles).index))]
    /\ owner' = owner \o [k \in DOMAIN threads[t].user_profiles |->
                              str(threads[t].user_profiles[k].user_id)]
    /\ Goto(t, "done")
    /\ BuildFrame

NextBuild ==
    \/ \E t \in BuildThreads, ps \in RebuiltProfiles : start_build(t, ps)
    \/ \E t \in BuildThreads : build_new_index(t)
    \/ \E t \in BuildThreads : build_clear_int(t)
    \/ \E t \in BuildThreads : build_clear_str(t)
    \/ \E t \in BuildThreads : build_map_int(t)
    \/ \E t \in BuildThreads : build_map_str(t)
    \/ \E t \in BuildThreads : build_add_with_ids(t)
    \/ \E t \in SearchThreads, vector \in QueryVecs, k \in 1 .. MaxK : start_search(t, vector, k)
    \/ \E t \in SearchThreads : search_query(t)
    \/ \E t \in SearchThreads : search_lookup(t)
    \/ \E t \in SearchThreads : search_return(t)

SpecBuild == InitThreads /\ [][NextBuild]_vars

--------------------------------------------------------------------------
\* Claims about the pure functions (SpecFn)

Returned(op) == fnCall.op = op /\ ~IsNone(fnResult)

Result == Val(fnResult)

\* C3: no title returned by get_recommendations_by_profile comes from a catalog
\* index of the exclude set, and recommend_with_content_based returns no item
\* whose index was resolved from the user's own history.
C3_Exclusion ==
    /\ Returned("by_profile") =>
          \A k \in DOMAIN Result.indices :
              /\ Result.indices[k] \notin fnCall.exclude_indices
              /\ Result.titles[k] = idx_to_title(Result.indices[k])
    /\ Returned("content_based") =>
          \A k \in DOMAIN Result.indices :
              /\ \A j \in DOMAIN fnCall.history : RowIdx(fnCall.history[j]) # Some(Result.indices[k])
              /\ Result.titles[k] = idx_to_title(Result.indices[k])

\* the nearest item to the profile is excluded and another one is returned
C3_Witness ==
    /\ Returned("by_profile")
    /\ fnCall.profile_vector = <<1, 0>>
    /\ fnCall.exclude_indices = {0}
    /\ get_nns_by_vector(fnCall.profile_vector, 1)[1].idx = 0
    /\ Len(Result.indices) = fnCall.top_n

\* the bonus added to the similarity of candidate e, as a numerator over
\* BonusDen(avg): (final score - similarity) * BonusDen
AddedBonus(e) ==
    (e.score - SimilarityNum(AngularSquared(fnCall.profile_vector, get_item_vector(e.idx)))
                 * BonusDen(fnCall.avg_page_count)) \div SimilarityDen

Avg300 == [num |-> 300, den |-> 1]

\* C7 as stated: with avg_page_length = 300 the bonus is W_page for length 300,
\* 0 for length 360 (the band edge) and 0 for length 500.
C7_Original ==
    (Returned("by_profile") /\ fnCall.avg_page_count = Avg300) =>
        \A k \in DOMAIN Result.final_scores :
            LET e  == Result.final_scores[k]
                pc == Item(e.idx).page_count
            IN  /\ pc = Some(300) => AddedBonus(e) * PageBonusDen = BonusDen(Avg300)
                /\ pc = Some(360) => AddedBonus(e) = 0
                /\ pc = Some(500) => AddedBonus(e) = 0

\* C7 amended: with avg_page_length = 300 the bonus is W_page for length 300,
\* 0.8 * W_page (0.2) for length 360 and 0 for length 500; for every average > 0
\* the bonus is W_page * (1 - |length - avg| / avg) inside [0.8 avg, 1.2 avg],
\* the edges included, and 0 outside or without a page count.
C7_PageBonus ==
    Returned("by_profile") =>
        \A k \in DOMAIN Result.final_scores :
            LET e   == Result.final_scores[k]
                pc  == Item(e.idx).page_count
                avg == fnCall.avg_page_count
            IN  /\ avg = Avg300 =>
                     /\ pc = Some(300) => AddedBonus(e) * PageBonusDen = BonusDen(avg)
                     /\ pc = Some(360) => AddedBonus(e) * 5 = BonusDen(avg)
                     /\ pc = Some(500) => AddedBonus(e) = 0
                /\ (avg.num > 0 /\ ~IsNone(pc)) =>
                     IF 8 * avg.num <= 10 * Val(pc) * avg.den /\ 10 * Val(pc) * avg.den <= 12 * avg.num
                     THEN AddedBonus(e) * PageBonusDen * avg.num
                            = BonusDen(avg) * (avg.num - Abs(Val(pc) * avg.den - avg.num))
                     ELSE AddedBonus(e) = 0
                /\ (avg.num = 0 \/ IsNone(pc)) => AddedBonus(e) = 0

\* candidates of length 300, 360 and 500 are scored against an average of 300
C7_Witness ==
    /\ Returned("by_profile")
    /\ fnCall.avg_page_count = Avg300
    /\ \A pc \in {300, 360, 500} :
          \E k \in DOMAIN Result.final_scores :
              Item(Result.final_scores[k].idx).page_count = Some(pc)

\* the catalog indices the rows of a history resolve to
ResolvedItems(rows) ==
    {Val(title_to_idx(rows[k].book_title)) : k \in {j \in DOMAIN rows : RowResolves(rows[j])}}

\* C8: for a history whose rows all have rating 3 and of which at least one
\* resolves, calculate returns the unweighted mean of the resolved items' vectors.
C8_FallbackMean ==
    (/\ Returned("calculate")
     /\ \A k \in DOMAIN fnCall.history : fnCall.history[k].rating = Some(3)
     /\ ResolvedItems(fnCall.history) # {}) =>
        /\ ~IsNone(Result)
        /\ LET R == ResolvedItems(fnCall.history)
           IN  \A d \in Dims :
                  Val(Result).num[d] * Cardinality(R)
                    = Val(Result).den * SumOver([i \in R |-> get_item_vector(i)[d]], R)

\* two different books rated 3: the profile is the half sum of their vectors
C8_Witness ==
    /\ Returned("calculate")
    /\ Len(fnCall.history) = 2
    /\ \A k \in DOMAIN fnCall.history : fnCall.history[k].rating = Some(3)
    /\ ResolvedItems(fnCall.history) = {0, 1}
    /\ Result = Some([num |-> <<100, 100>>, den |-> 2])

\* C9: calculate returns None exactly when no row resolves, and the rows that
\* do not resolve are skipped: the result is the one of the resolvable rows alone.
C9_NoneIffNothingResolves ==
    Returned("calculate") =>
        /\ IsNone(Result) <=> ResolvedItems(fnCall.history) = {}
        /\ Result = calculate(SelectSeq(fnCall.history, RowResolves))

\* a history with one resolvable row beside an unknown title and a missing rating
C9_Witness ==
    /\ Returned("calculate")
    /\ \E k \in DOMAIN fnCall.history : RowResolves(fnCall.history[k])
    /\ \E k \in DOMAIN fnCall.history : ~RowResolves(fnCall.history[k])
    /\ ~IsNone(Result)

\* C10: every weight that calculate applies, for a rating in 0..5, lies in
\* [-1, 1], and is 0 exactly for rating 3
C10_WeightInRange ==
    Returned("calculate")
        => \A k \in DOMAIN fnCall.history :
              RowResolves(fnCall.history[k])
                  => /\ Abs(WeightNum(Val(fnCall.history[k].rating))) <= WeightDen
                     /\ (WeightNum(Val(fnCall.history[k].rating)) = 0
                            <=> Val(fnCall.history[k].rating) = 3)

\* the history of Scenario A: Alpha rated 5 and Beta rated 1, in either order
ScenarioA ==
    /\ Returned("scenario")
    /\ fnCall.num_books = 3
    /\ Len(fnCall.history) = 2
    /\ {fnCall.history[1], fnCall.history[2]}
          = {[book_title |-> "Alpha", rating |-> Some(5), page_count |-> None],
             [book_title |-> "Beta", rating |-> Some(1), page_count |-> None]}
    /\ fnCall.exclude_indices = {0, 1}
    /\ fnCall.top_n = 1

\* C11: in the catalog Alpha, Beta, Gamma, for the history Alpha = 5, Beta = 1,
\* calculate applies the weights +1 and -1 and gives a profile in direction
\* [1, -1], and get_recommendations_by_profile with that profile, exclude =
\* {Alpha, Beta} and top_n = 1 returns exactly ["Gamma"]
C11_ScenarioA ==
    ScenarioA =>
        /\ WeightNum(5) = WeightDen
        /\ WeightNum(1) = 0 - WeightDen
        /\ ~IsNone(Result.profile_vector)
        /\ Val(Result.profile_vector).num[1] > 0
        /\ Val(Result.profile_vector).num[1] + Val(Result.profile_vector).num[2] = 0
        /\ Result.titles = <<"Gamma">>

\* Scenario A has been run: the profile is (Alpha - Beta) / 2
C11_Witness ==
    /\ ScenarioA
    /\ ProfileEq(Val(Result.profile_vector), [num |-> <<50, 0 - 50>>, den |-> 1])
    /\ Len(Result.titles) = 1

\* the candidates the ANN query of the call returned
CandidatesOfCall == get_nns_by_vector(fnCall.profile_vector, fnCall.top_n * OverFetch)

\* C16: the page-length re-ranking neither adds nor removes a candidate: the
\* indices scored and sorted are exactly the candidates that are not excluded,
\* each of them once
C16_RerankKeepsCandidates ==
    Returned("by_profile") =>
        LET candidates == CandidatesOfCall
        IN  /\ {Result.final_scores[k].idx : k \in DOMAIN Result.final_scores}
                  = {candidates[k].idx : k \in DOMAIN candidates} \ fnCall.exclude_indices
            /\ \A j, k \in DOMAIN Result.final_scores :
                  Result.final_scores[j].idx = Result.final_scores[k].idx => j = k

\* four candidates are left after the exclusion, and the bonus moves one of
\* them to another place than the one its similarity gave it
C16_Witness ==
    /\ Returned("by_profile")
    /\ fnCall.exclude_indices = {0}
    /\ fnCall.avg_page_count = Avg300
    /\ Len(Result.final_scores) = 4
    /\ \E k \in DOMAIN Result.final_scores :
          Result.final_scores[k].idx
              # KeptCandidates(CandidatesOfCall, fnCall.exclude_indices)[k].idx

\* C29: in every model that ModelBuilder.build produces, title_to_idx maps the
\* title of every catalog index i back to i
C29_TitleRoundTrip ==
    (Returned("model_build") /\ ~IsNone(Result))
        => \A i \in DOMAIN Val(Result).idx_to_title :
              Val(Result).title_to_idx[Val(Result).idx_to_title[i]] = i

\* C30: with at least one known input title, get_recommendations returns the
\* top_n books that are not input books, in descending order of their mean
\* cosine similarity to the input books found; the first result is the
\* non-input book of highest mean similarity
C30_TopSimilar ==
    (/\ Returned("similar")
     /\ \E k \in DOMAIN fnCall.input_book_titles : fnCall.input_book_titles[k] \in KnownTitles)
        => /\ Result.indices = Take(Result.ranked, fnCall.top_n)
           /\ \A j, k \in DOMAIN Result.ranked :
                 j < k => SumSim(InputIndices(fnCall.input_book_titles), Result.ranked[j])
                            >= SumSim(InputIndices(fnCall.input_book_titles), Result.ranked[k])
           /\ {Result.ranked[k] : k \in DOMAIN Result.ranked}
                 = BookIdx \ {InputIndices(fnCall.input_book_titles)[k] :
                                 k \in DOMAIN InputIndices(fnCall.input_book_titles)}

\* C28: get_recommendations_by_profile returns exactly min(top_n, number of
\* catalog items not in exclude_indices) titles
C28_NoStarvation ==
    Returned("pool") =>
        Len(Result.titles)
            = Min(fnCall.top_n, Cardinality((0 .. fnCall.num_books - 1) \ fnCall.exclude_indices))

\* the genres of the catalog items that rows ks of the history resolve to
GenresOfRows(rows, ks) ==
    UNION {Item(Val(title_to_idx(rows[k].book_title))).key_genres :
              k \in {j \in ks : ~IsNone(title_to_idx(rows[j].book_title))}}

LikedRows(rows) == {k \in DOMAIN rows : Val(rows[k].rating) >= 4}

DislikedRows(rows) == {k \in DOMAIN rows : Val(rows[k].rating) <= 2}

\* avg is the mean of the page counts of rows ks, and 0 when ks is empty
IsMeanPageCount(avg, rows, ks) ==
    IF ks = {} THEN avg.num = 0
    ELSE avg.num * Cardinality(ks) = avg.den * SumOver([k \in ks |-> Val(rows[k].page_count)], ks)

GenresPartitioned(ctx, rows) ==
    /\ ctx.preferred_genres \cap ctx.disliked_genres = {}
    /\ ctx.preferred_genres = GenresOfRows(rows, LikedRows(rows))
    /\ ctx.disliked_genres = GenresOfRows(rows, DislikedRows(rows)) \ ctx.preferred_genres

--------------------------------------------------------------------------
\* Claims about UserProfileIndex (SpecIndex)

SearchExcludes == fnCall.user_id_to_exclude

\* the entries of the searched index that search reports under user id u
VectorsOf(inst, u) ==
    {k \in DOMAIN Val(inst.index) :
        /\ Val(inst.index)[k].id \in DOMAIN inst.int_to_str_id_map
        /\ inst.int_to_str_id_map[Val(inst.index)[k].id] = u}

\* C4: search(vector, k, user_id_to_exclude = u) never returns an entry whose
\* user_id is u, and returns at most k entries
C4_SearchExcludesUser ==
    (Returned("search") /\ ~IsNone(SearchExcludes) /\ Truthy(Val(SearchExcludes)))
        => /\ Len(Result) <= fnCall.k
           /\ \A i \in DOMAIN Result : Result[i].user_id # str(Val(SearchExcludes))

\* u1 is excluded, u1's own vector is the nearest neighbour of the query (distance
\* 0, first in storage order), and the search still returns another user
C4_Witness ==
    /\ Returned("search")
    /\ SearchExcludes = Some(RawStr("u1"))
    /\ Len(fnCall.profiles) = 2
    /\ fnCall.profiles[1].user_id = RawStr("u1")
    /\ fnCall.profiles[1].taste_vector = fnCall.vector
    /\ Len(Result) = 1
    /\ Result[1].user_id = "u2"

SameSearches(a, b) ==
    \A v \in QueryVecs, k \in 1 .. MaxK, u \in ExcludedUserIds : search(a, v, k, u) = search(b, v, k, u)

\* C5: after build and insertions, save() then load() on a fresh instance gives
\* an index that answers every search as the saving instance does and whose two
\* id maps equal those of the saving instance
C5_SaveLoadRoundTrip ==
    Returned("save_load")
        => /\ SameSearches(Result.loaded, Result.saving)
           /\ Result.loaded.int_to_str_id_map = Result.saving.int_to_str_id_map
           /\ Result.loaded.str_to_int_id_map = Result.saving.str_to_int_id_map

\* C6: every similarity returned by search lies in [-1, 1]
C6_SimilarityInRange ==
    Returned("search")
        => \A i \in DOMAIN Result :
              /\ 0 - FaissSimilarityDen <= Result[i].similarity
              /\ Result[i].similarity <= FaissSimilarityDen

\* the int ids that have a vector in the ANN structure
IndexIds(inst) == {Val(inst.index)[k].id : k \in DOMAIN Val(inst.index)}

\* the two id maps are mutually inverse, and every vector's id is mapped
MapsInverse(inst) ==
    /\ IndexIds(inst) \subseteq DOMAIN inst.int_to_str_id_map
    /\ \A i \in DOMAIN inst.int_to_str_id_map :
          /\ inst.int_to_str_id_map[i] \in DOMAIN inst.str_to_int_id_map
          /\ inst.str_to_int_id_map[inst.int_to_str_id_map[i]] = i
    /\ \A u \in DOMAIN inst.str_to_int_id_map :
          /\ inst.str_to_int_id_map[u] \in DOMAIN inst.int_to_str_id_map
          /\ inst.int_to_str_id_map[inst.str_to_int_id_map[u]] = u

\* C17: after build, lazy insertions, save and load, every int id that has a
\* vector has an entry in int_to_str_id_map and the two id maps are mutually
\* inverse bijections, in the saving instance and in the loaded one
C17_IdMapsInverse ==
    Returned("save_load") => (MapsInverse(Result.saving) /\ MapsInverse(Result.loaded))

\* the index the user of the call is inserted into
BeforeInsert == build(NewUserProfileIndex, fnCall.profiles)

\* a user that build did not map was inserted into a built index with vectors
InsertedUnmapped ==
    /\ Returned("save_load")
    /\ Len(fnCall.profiles) > 0
    /\ Len(fnCall.inserts) = 1
    /\ str(fnCall.inserts[1].user_id) \notin DOMAIN BeforeInsert.str_to_int_id_map

ChosenIntId == Result.saving.str_to_int_id_map[str(fnCall.inserts[1].user_id)]

ExistingIntIds == IndexIds(BeforeInsert) \cup DOMAIN BeforeInsert.int_to_str_id_map

\* C18: the int id chosen for a user that is not yet mapped is the maximum
\* existing int id + 1, and neither a vector nor an entry of int_to_str_id_map
\* uses it at the moment of the insertion
C18_FreshIntId ==
    InsertedUnmapped =>
        /\ ChosenIntId \notin ExistingIntIds
        /\ \A i \in ExistingIntIds : i < ChosenIntId
        /\ ChosenIntId - 1 \in ExistingIntIds

\* C23: after build(profiles) with N >= 1 profiles on an index in any prior
\* state, the ANN structure holds exactly the N normalized vectors under int ids
\* 0..N-1 in the order of the profiles, and int_to_str_id_map maps exactly each
\* i in 0..N-1 to the string form of the user_id of the i-th profile; nothing
\* from before the build is left
C23_BuildReplaces ==
    (Returned("rebuild") /\ Len(fnCall.rebuilt) >= 1)
        => /\ Val(Result.after.index)
                = [k \in DOMAIN fnCall.rebuilt |->
                      [id |-> k - 1, vector |-> normalize_L2(fnCall.rebuilt[k].taste_vector.num)]]
           /\ Result.after.int_to_str_id_map
                = [i \in 0 .. Len(fnCall.rebuilt) - 1 |-> str(fnCall.rebuilt[i + 1].user_id)]
           /\ DOMAIN Result.after.str_to_int_id_map
                = {str(fnCall.rebuilt[k].user_id) : k \in DOMAIN fnCall.rebuilt}

\* build with one profile on an index of three vectors whose maps hold other users
C23_Witness ==
    /\ Returned("rebuild")
    /\ Len(fnCall.rebuilt) = 1
    /\ ntotal(Result.before) = 3
    /\ "u2" \in DOMAIN Result.before.str_to_int_id_map
    /\ ntotal(Result.after) = 1
    /\ DOMAIN Result.after.str_to_int_id_map = {"u1"}

\* C24: after a build flow of the scripts the id-map file maps every int id i
\* to the original user_id of the i-th profile, and a search on the index that
\* load() gives returns original user ids
C24_FlowKeepsUserIds ==
    Returned("build_flow")
        => /\ Val(Result.disk.map_file)
                = [i \in 0 .. Len(fnCall.all_profiles) - 1 |-> fnCall.all_profiles[i + 1].user_id]
           /\ \A j \in DOMAIN Result.found :
                 Result.found[j].user_id
                     \in {fnCall.all_profiles[k].user_id : k \in DOMAIN fnCall.all_profiles}

\* the users whose vector the insertions add, in the order of the insertions
RECURSIVE InsertedUsers(_, _, _)
InsertedUsers(inst, inserts, k) ==
    IF k > Len(inserts) THEN <<>>
    ELSE (IF str(inserts[k].user_id) \in DOMAIN inst.str_to_int_id_map
          THEN <<>> ELSE <<inserts[k].user_id>>)
         \o InsertedUsers(InsertProfile(inst, inserts[k].user_id, inserts[k].taste_vector), inserts, k + 1)

\* the users that have a vector in the searched index
UsersWithVector ==
    {fnCall.profiles[k].user_id : k \in DOMAIN fnCall.profiles}
        \cup {InsertedUsers(build(NewUserProfileIndex, fnCall.profiles), fnCall.inserts, 1)[k] :
                 k \in DOMAIN InsertedUsers(build(NewUserProfileIndex, fnCall.profiles), fnCall.inserts, 1)}

\* C27: search(v, k, user_id_to_exclude = u) with a string user id u returns
\* exactly min(k, M) entries, M being the number of users other than u that have
\* a vector in the index
C27_BufferSuffices ==
    (/\ Returned("search")
     /\ ~IsNone(SearchExcludes)
     /\ "str" \in DOMAIN Val(SearchExcludes))
        => Len(Result) = Min(fnCall.k, Cardinality(UsersWithVector \ {Val(SearchExcludes)}))

\* C14: when the index file or the id-map file is absent, load() leaves the index
\* and both id maps as they were; on a fresh instance the index stays absent, a
\* later search() returns [] and a later add() inserts nothing
C14_MissingArtifact ==
    (Returned("load_missing") /\ fnCall.missing # {})
        => /\ Result.after = Result.before
           /\ ~fnCall.built
                 => /\ IsNone(Result.after.index)
                    /\ Result.found = <<>>
                    /\ Result.added = Result.after

\* the id-map file alone is missing, the index file holds two vectors, and the
\* fresh instance has searched and added after the load
C14_Witness ==
    /\ Returned("load_missing")
    /\ fnCall.missing = {"map"}
    /\ ~fnCall.built
    /\ Len(fnCall.profiles) = 2
    /\ Result.after = NewUserProfileIndex
    /\ Result.found = <<>>

--------------------------------------------------------------------------
\* Claims about the running system (Spec)

CurrentTaste(u) == calculate(find_interactions_by_user(reviews[u]))

\* the vectors of the live index stored under an int_id that int_to_str_id_map maps to u
LiveVectorsOf(u) == VectorsOf(live, u)

\* C1: for a user who had a stored profile when they last wrote, once the task of
\* that write has completed the stored taste vector is calculate of the current history
C1_ProfileFollowsHistory ==
    \A u \in Users :
        (/\ lastWrite[u] = Some([had_profile |-> TRUE, completed |-> TRUE])
         /\ ~IsNone(CurrentTaste(u)))
            => /\ ~IsNone(profile_store[u])
               /\ ProfileEq(Val(profile_store[u]), Val(CurrentTaste(u)))

\* C2: after a recommendation call created the profile of u with the live index
\* there, the store holds the taste vector and the index holds exactly one vector
\* for u, under an int_id that the two maps tie to u
C2_LazyCreation ==
    \A u \in Users :
        ~IsNone(lazy[u])
            => /\ profile_store[u] = lazy[u]
               /\ Cardinality(LiveVectorsOf(u)) = 1
               /\ u \in DOMAIN live.str_to_int_id_map
               /\ live.str_to_int_id_map[u] \in DOMAIN live.int_to_str_id_map
               /\ live.int_to_str_id_map[live.str_to_int_id_map[u]] = u
               /\ \A k \in LiveVectorsOf(u) :
                     /\ Val(live.index)[k].id = live.str_to_int_id_map[u]
                     /\ Val(live.index)[k].vector = normalize_L2(Val(lazy[u]).num)

\* u2 was created by a recommendation call on an index loaded with u1 in it, and
\* has asked for recommendations again since (the index holds both users)
C2_Witness ==
    /\ ~IsNone(lazy["u2"])
    /\ IsNone(lazy["u1"])
    /\ Cardinality(LiveVectorsOf("u1")) = 1
    /\ ntotal(live) = 2
    /\ live.str_to_int_id_map["u2"] = 1

\* the user has no interaction and no stored profile
ColdStart(u) == Len(find_interactions_by_user(reviews[u])) = 0 /\ IsNone(profile_store[u])

\* C12: for a user with an empty history and no stored profile,
\* recommend_with_content_based and recommend_with_collaborative_filtering both
\* return [] and change neither the profile store, nor the index, nor an id map
C12_ColdStart ==
    [][\A u \in Users :
          /\ (ColdStart(u) /\ recommend_with_collaborative_filtering(u))
                => /\ fnResult' = Some(NoneRecommended)
                   /\ UNCHANGED <<profile_store, live>>
          /\ (ColdStart(u) /\ content_based_request(u))
                => /\ Val(fnResult').titles = <<>>
                   /\ UNCHANGED <<profile_store, live>>]_vars

\* u2, without history or profile, has just asked for collaborative
\* recommendations while the loaded index holds the vector of u1
C12_Witness ==
    /\ fnCall = [op |-> "collaborative_request", user_id |-> "u2"]
    /\ ColdStart("u2")
    /\ fnResult = Some(NoneRecommended)
    /\ ~IsNone(live.index)
    /\ Cardinality(LiveVectorsOf("u1")) = 1

\* C15: once the target user has a vector in the index, the neighbours that
\* recommend_with_collaborative_filtering(user_id) aggregates never include the
\* profile of user_id itself
C15_SelfExcluded ==
    (/\ fnCall.op = "collaborative_request"
     /\ ~IsNone(fnResult)
     /\ ~IsNone(live.index)
     /\ LiveVectorsOf(fnCall.user_id) # {})
        => \A n \in DOMAIN Result.neighbors : Result.neighbors[n].user_id # fnCall.user_id

\* C25: a user who has a taste vector in the profile store has a vector in the
\* live index under an int id mapped to that user
C25_StoredIsSearchable ==
    \A u \in Users :
        ~IsNone(profile_store[u]) => (~IsNone(live.index) /\ LiveVectorsOf(u) # {})

\* the int ids under which the live ANN structure holds a vector
LiveIds == IF IsNone(live.index) THEN {} ELSE {Val(live.index)[k].id : k \in DOMAIN Val(live.index)}

\* C26: every int id of int_to_str_id_map and every user_id of str_to_int_id_map
\* has a vector stored under that int id in the live ANN structure
C26_MappedHasVector ==
    /\ DOMAIN live.int_to_str_id_map \subseteq LiveIds
    /\ \A u \in DOMAIN live.str_to_int_id_map : live.str_to_int_id_map[u] \in LiveIds

--------------------------------------------------------------------------
\* Claims about the threads of the web app (SpecThreads)

\* C19: a search() that ran while the insertion of a new user was under way
\* returns only entries that carry the user_id of the owner of the returned
\* vector; so the new user is absent, or present with its own user_id
C19_NoHalfInsertedUser ==
    \A t \in SearchThreads :
        (At(t, "returned") /\ threads[t].overlapped)
            => \A i \in DOMAIN threads[t].neighbors :
                  threads[t].neighbors[i].user_id = threads[t].neighbor_owner[i]

\* the int ids of the vectors in the index file
PersistedIds == {Val(files.index_file)[k].id : k \in DOMAIN Val(files.index_file)}

\* C20: when a save() of a background task completes, every int id in the
\* persisted index file has an entry in the persisted id-map file
C20_SaveNeverRaces ==
    [][\A t \in TaskThreads :
          task_dump_map(t) => (PersistedIds \subseteq DOMAIN Val(files.map_file))']_vars

\* both background tasks have run to their end
BothCompleted == \A t \in TaskThreads : At(t, "done")

\* the users whose task ended with a taste vector
TaskedUsers == {threads[t].user_id : t \in {x \in TaskThreads : ~IsNone(threads[x].profile_vector)}}

\* the positions of the ANN structure that hold a vector of user u
PositionsOf(u) == {k \in DOMAIN owner : owner[k] = u}

\* C21: when two background tasks on a loaded index have completed, each of
\* their users has exactly one vector in the ANN structure, vectors of distinct
\* users lie under distinct int ids, and the two id maps are mutually inverse
C21_TasksSerialized ==
    BothCompleted =>
        /\ \A u \in TaskedUsers : Cardinality(PositionsOf(u)) = 1
        /\ \A j, k \in DOMAIN owner :
              owner[j] # owner[k] => Val(live.index)[j].id # Val(live.index)[k].id
        /\ MapsInverse(live)

--------------------------------------------------------------------------
\* Claims about build running beside a search (SpecBuild)

\* the complete state before the build: the index as it was loaded
BeforeBuild == load(NewUserProfileIndex, files)

\* the complete state after the build
AfterBuild(t) == build(NewUserProfileIndex, threads[t].user_profiles)

\* what search(vector, k) of thread t returns on the index inst
SearchOn(inst, t) == search(inst, threads[t].vector, threads[t].k, None)

\* C22: a search that has returned while build(profiles), with at least one
\* profile, was called on the same index returns what it returns on the complete
\* state before the build or on the complete state after it
C22_NoPartialBuild ==
    \A t \in SearchThreads, b \in BuildThreads :
        (/\ At(t, "returned")
         /\ ~At(b, "idle")
         /\ Len(threads[b].user_profiles) > 0)
            => \/ threads[t].neighbors = SearchOn(BeforeBuild, t)
               \/ threads[t].neighbors = SearchOn(AfterBuild(b), t)
====
